---- MODULE Spec2Model ----
(***************************************************************************)
(* Model of arbitrator/prover/src/programs/mod.rs: the ModuleMod           *)
(* capability with its two adapters (ModuleInfo and WasmBinary) and the    *)
(* wasmer bridge wrappers (MiddlewareWrapper, FuncMiddlewareWrapper).      *)
(*                                                                         *)
(* Rust values are written as follows:                                     *)
(*   Option<T>      None is <<>>, Some(x) is <<x>>                         *)
(*   Result<T>      [ok |-> TRUE, val |-> v]  or  [ok |-> FALSE, err |-> e]*)
(*   Vec / PrimaryMap   a sequence; index i of the code is element i + 1   *)
(*   IndexMap / HashMap a function whose DOMAIN is the set of keys         *)
(***************************************************************************)
EXTENDS Integers, Sequences, FiniteSets, TLC

VARIABLES
    modA,       \* the ModuleInfo the capability calls act on (adapter A)
    modB,       \* the WasmBinary the same calls act on (adapter B)
    preA,       \* modA as it was when the last call was entered
    preB,       \* modB as it was when the last call was entered
    call,       \* the last call: its operation and arguments
    retA,       \* what the last call returned on modA
    retB,       \* what the last call returned on modB
    hook,       \* the last engine hook invoked on a bridge wrapper, with what the wrapped call returned
    hookRet,    \* what that hook handed back to the engine
    worker,     \* Option: the FuncMiddlewareWrapper produced by generate_function_middleware
    sink,       \* the engine's collector the wrapped feed extends
    fed,        \* the operators fed so far, one at a time, to a DefaultFuncMiddleware
    instance,   \* an instantiated module: its exports
    store,      \* the Store holding that instance's globals
    access,     \* the last GlobalMod call on the instance, with the store it was entered with
    accessRet   \* what that call returned, or that it panicked

vars == <<modA, modB, preA, preB, call, retA, retB, hook, hookRet, worker, sink,
          fed, instance, store, access, accessRet>>

----------------------------------------------------------------------------
(* Bounds of the model *)

MaxPages == 1
MaxSink == 2
MaxFeed == 6
MaxValue == 2
MaxImports == 2
MaxLocals == 2

(* Input sets *)

Names == {"cost_left", "user_start"}

PageCounts == 0..MaxPages

\* (ty, init) argument pairs of add_global; x of I32Const is an i32, of I64Const an i64
GlobalArgs ==
    { [ty |-> "I32", init |-> <<"I32Const", -1>>],
      [ty |-> "I64", init |-> <<"I64Const", 0>>],
      [ty |-> "FuncRef", init |-> <<"RefNullConst">>] }

----------------------------------------------------------------------------
(* Rust helpers *)

None == <<>>

Some(x) == <<x>>

Ok(v) == [ok |-> TRUE, val |-> v]

Err(e) == [ok |-> FALSE, err |-> e]

Unit == <<"()">>

\* slice::get / PrimaryMap::get with a 0-based index
Get(s, i) == IF i >= 0 /\ i < Len(s) THEN Some(s[i + 1]) ELSE None

\* map.get(key)
MapGet(m, k) == IF k \in DOMAIN m THEN Some(m[k]) ELSE None

\* map.insert(key, value): the key is added, or its value replaced
MapInsert(m, k, v) == [x \in (DOMAIN m) \cup {k} |-> IF x = k THEN v ELSE m[x]]

Min(a, b) == IF a <= b THEN a ELSE b

\* Option::unwrap_or
UnwrapOr(o, d) == IF o = None THEN d ELSE o[1]

\* the two's complement bits of x as n little-endian 16-bit limbs
RECURSIVE Limbs(_, _)
Limbs(x, n) == IF n = 0 THEN <<>> ELSE <<x % 65536>> \o Limbs(x \div 65536, n - 1)

\* `x as u32` of an i32, `x as u64` of an i64: the same bits read unsigned
AsU32(x) == Limbs(x, 2)

AsU64(x) == Limbs(x, 4)


----------------------------------------------------------------------------
(* The module both representations are built from *)

\* wasmer_types::FunctionType of each signature, by SignatureIndex
Signatures ==
    << [params |-> <<"I32", "I64">>, results |-> <<"I32">>],
       [params |-> <<>>, results |-> <<>>] >>

\* signature index of each imported function, in import order
ImportSigs == <<1>>

\* signature index of each locally defined function, in definition order
LocalSigs == <<0, 1>>

\* a memory type: minimum and Option maximum, in pages, minimum <= maximum
MemoryTypes ==
    { [minimum |-> m, maximum |-> None] : m \in PageCounts }
        \cup { [minimum |-> q[1], maximum |-> Some(q[2])] :
                    q \in { r \in PageCounts \X PageCounts : r[1] <= r[2] } }

\* declared memories: none, one, or two (the multi-memory extension)
MemoryLists ==
    {<<>>} \cup { <<m>> : m \in MemoryTypes } \cup { <<m, n>> : m \in MemoryTypes, n \in MemoryTypes }

\* the start section: absent, or the index of a local function
StartSlots == {None, Some(1)}

\* exports the module is built with, as (name, kind, index); kinds are those of ExportIndex
BuiltExports == { {}, {<<"user_start", "Table", 0>>} }

----------------------------------------------------------------------------
(* Signature conversions of the value module *)

\* value::parser_func_type: a wasmparser FuncType keeps params and results in one
\* list with the number of params
parser_func_type(ty) ==
    [params_results |-> ty.params \o ty.results, len_params |-> Len(ty.params)]

\* ArbValueType::try_from of one value type: 128-bit types are not supported
ArbValueTypeOf(t) == IF t = "V128" THEN Err("128-bit types are not supported") ELSE Ok(t)

\* FunctionType::try_from(FuncType): inputs then outputs, the first failure wins
FuncTypeTryInto(ft) ==
    LET all == [i \in 1..Len(ft.params_results) |-> ArbValueTypeOf(ft.params_results[i])]
        bad == { i \in 1..Len(all) : ~all[i].ok }
    IN  IF bad # {}
        THEN all[CHOOSE i \in bad : \A j \in bad : i <= j]
        ELSE Ok(<<"FunctionType",
                  [i \in 1..ft.len_params |-> all[i].val],
                  [i \in 1..(Len(all) - ft.len_params) |-> all[ft.len_params + i].val]>>)

----------------------------------------------------------------------------
(* The two representations *)

\* ModuleInfo as the compiling engine builds it
ModuleInfoOf(mems, start, exps) ==
    [ globals             |-> <<>>,
      global_initializers |-> <<>>,
      exports             |-> [n \in {e[1] : e \in exps} |->
                                 LET e == CHOOSE x \in exps : x[1] = n IN <<e[2], e[3]>>],
      start_function      |-> start,
      function_names      |-> <<>>,
      memories            |-> mems,
      signatures          |-> Signatures,
      functions           |-> ImportSigs \o LocalSigs ]

\* binary::ExportKind of an ExportIndex kind
ExportKindOf(k) == IF k = "Function" THEN "Func" ELSE k

\* WasmBinary as the parser builds it
WasmBinaryOf(mems, start, exps) ==
    [ globals   |-> <<>>,
      exports   |-> [n \in {e[1] : e \in exps} |->
                       LET e == CHOOSE x \in exps : x[1] = n IN <<e[3], ExportKindOf(e[2])>>],
      start     |-> start,
      names     |-> [functions |-> <<>>],
      memories  |-> [i \in 1..Len(mems) |->
                       [initial |-> mems[i].minimum, maximum |-> mems[i].maximum]],
      types     |-> [i \in 1..Len(Signatures) |->
                       FuncTypeTryInto(parser_func_type(Signatures[i])).val],
      imports   |-> [i \in 1..Len(ImportSigs) |-> [offset |-> ImportSigs[i]]],
      functions |-> LocalSigs ]

----------------------------------------------------------------------------
(* impl ModuleMod for ModuleInfo; each operator gives the module after the call *)
(* and the value returned                                                   *)

Outcome(m, r) == [mod |-> m, ret |-> r]

\* limit_heap with the slip of taking the limit as the bound, whatever the maximum
ModuleInfo_limit_heap_ignoring_maximum(self, limit) ==
    IF Len(self.memories) > 1
    THEN Outcome(self, Err(<<"multi-memory extension not supported">>))
    ELSE IF Len(self.memories) = 0
    THEN Outcome(self, Ok(Unit))
    ELSE LET memory == self.memories[1]
             bound == limit
             after == [self EXCEPT !.memories[1].maximum = Some(bound)]
         IN  IF memory.minimum > bound
             THEN Outcome(after, Err(<<"module memory minimum exceeds limit", memory.minimum, bound>>))
             ELSE Outcome(after, Ok(Unit))

\* move_start_function with the slip of taking the start slot before the name is checked
ModuleInfo_move_start_function_take_first(self, name) ==
    LET prior == MapGet(self.exports, name)
        start == self.start_function
        taken == [self EXCEPT !.start_function = None]
    IN  IF prior # None
        THEN Outcome(taken, Err(<<"function already exists", name, prior[1]>>))
        ELSE IF start # None
        THEN Outcome([taken EXCEPT
                        !.exports = MapInsert(@, name, <<"Function", start[1]>>),
                        !.function_names = MapInsert(@, start[1], name)],
                     Ok(Unit))
        ELSE Outcome(taken, Ok(Unit))

\* add_global with the slip of taking the index after the push
ModuleInfo_add_global_index_after_push(self, name, ty, init) ==
    LET global_type == [ty |-> ty, mutability |-> "Var"]
        index == Len(self.globals) + 1
    IN  IF name \in DOMAIN self.exports
        THEN Outcome(self, Err(<<"wasm already contains", name>>))
        ELSE Outcome([self EXCEPT
                        !.globals = Append(@, global_type),
                        !.exports = MapInsert(@, name, <<"Global", index>>),
                        !.global_initializers = Append(@, init)],
                     Ok(<<"GlobalIndex", index>>))

\* move_start_function with the slip of reading the start slot without taking it
ModuleInfo_move_start_function_keeps_start(self, name) ==
    LET prior == MapGet(self.exports, name)
        start == self.start_function
    IN  IF prior # None
        THEN Outcome(self, Err(<<"function already exists", name, prior[1]>>))
        ELSE IF start # None
        THEN Outcome([self EXCEPT
                        !.exports = MapInsert(@, name, <<"Function", start[1]>>),
                        !.function_names = MapInsert(@, start[1], name)],
                     Ok(Unit))
        ELSE Outcome(self, Ok(Unit))

ModuleInfo_add_global(self, name, ty, init) ==
    LET global_type == [ty |-> ty, mutability |-> "Var"]
        index == Len(self.globals)
    IN  IF name \in DOMAIN self.exports
        THEN Outcome(self, Err(<<"wasm already contains", name>>))
        ELSE Outcome([self EXCEPT
                        !.globals = Append(@, global_type),
                        !.exports = MapInsert(@, name, <<"Global", index>>),
                        !.global_initializers = Append(@, init)],
                     Ok(<<"GlobalIndex", index>>))

ModuleInfo_get_signature(self, sig) ==
    LET ty == Get(self.signatures, sig)
    IN  IF ty = None
        THEN Err(<<"missing signature", sig>>)
        ELSE FuncTypeTryInto(parser_func_type(ty[1]))

ModuleInfo_get_function(self, func) ==
    LET sig == Get(self.functions, func)
        name == MapGet(self.function_names, func)
    IN  IF sig # None THEN ModuleInfo_get_signature(self, sig[1])
        ELSE IF name # None THEN Err(<<"missing func", name[1], func>>)
        ELSE Err(<<"missing func @ index", func>>)

ModuleInfo_move_start_function(self, name) ==
    LET prior == MapGet(self.exports, name)
        start == self.start_function
    IN  IF prior # None
        THEN Outcome(self, Err(<<"function already exists", name, prior[1]>>))
        ELSE IF start # None
        THEN Outcome([self EXCEPT
                        !.start_function = None,
                        !.exports = MapInsert(@, name, <<"Function", start[1]>>),
                        !.function_names = MapInsert(@, start[1], name)],
                     Ok(Unit))
        ELSE Outcome(self, Ok(Unit))

ModuleInfo_limit_heap(self, limit) ==
    IF Len(self.memories) > 1
    THEN Outcome(self, Err(<<"multi-memory extension not supported">>))
    ELSE IF Len(self.memories) = 0
    THEN Outcome(self, Ok(Unit))
    ELSE LET memory == self.memories[1]
             bound == Min(UnwrapOr(memory.maximum, limit), limit)
             after == [self EXCEPT !.memories[1].maximum = Some(bound)]
         IN  IF memory.minimum > bound
             THEN Outcome(after, Err(<<"module memory minimum exceeds limit", memory.minimum, bound>>))
             ELSE Outcome(after, Ok(Unit))

----------------------------------------------------------------------------
(* impl ModuleMod for WasmBinary *)

\* the Value a GlobalInit constant becomes; any other initializer is refused
WasmBinary_global_value(init) ==
    CASE init[1] = "I32Const" -> Ok(<<"I32", AsU32(init[2])>>)
      [] init[1] = "I64Const" -> Ok(<<"I64", AsU64(init[2])>>)
      [] init[1] = "F32Const" -> Ok(<<"F32", init[2]>>)
      [] init[1] = "F64Const" -> Ok(<<"F64", init[2]>>)
      [] OTHER -> Err(<<"cannot add global of type", init>>)

\* add_global with the slip of leaving out the duplicate check
WasmBinary_add_global_unchecked(self, name, ty, init) ==
    LET global == WasmBinary_global_value(init)
        index == Len(self.globals)
    IN  IF ~global.ok
        THEN Outcome(self, global)
        ELSE Outcome([self EXCEPT
                        !.exports = MapInsert(@, name, <<index, "Global">>),
                        !.globals = Append(@, global.val)],
                     Ok(<<"GlobalIndex", index>>))

\* move_start_function with the slip of exporting function 0 when there is no start function
WasmBinary_move_start_function_default_start(self, name) ==
    LET prior == MapGet(self.exports, name)
        start == UnwrapOr(self.start, 0)
    IN  IF prior # None
        THEN Outcome(self, Err(<<"function already exists", name, prior[1]>>))
        ELSE Outcome([self EXCEPT
                        !.start = None,
                        !.exports = MapInsert(@, name, <<start, "Func">>),
                        !.names.functions = MapInsert(@, start, name)],
                     Ok(Unit))

\* move_start_function with the slip of reading the start slot without taking it
WasmBinary_move_start_function_keeps_start(self, name) ==
    LET prior == MapGet(self.exports, name)
        start == self.start
    IN  IF prior # None
        THEN Outcome(self, Err(<<"function already exists", name, prior[1]>>))
        ELSE IF start # None
        THEN Outcome([self EXCEPT
                        !.exports = MapInsert(@, name, <<start[1], "Func">>),
                        !.names.functions = MapInsert(@, start[1], name)],
                     Ok(Unit))
        ELSE Outcome(self, Ok(Unit))

\* limit_heap with the slip of leaving out the multi-memory check
WasmBinary_limit_heap_first_memory(self, limit) ==
    IF Len(self.memories) = 0
    THEN Outcome(self, Ok(Unit))
    ELSE LET memory == self.memories[1]
             bound == Min(UnwrapOr(memory.maximum, limit), limit)
             after == [self EXCEPT !.memories[1].maximum = Some(bound)]
         IN  IF memory.initial > bound
             THEN Outcome(after, Err(<<"module memory minimum exceeds limit", memory.initial, bound>>))
             ELSE Outcome(after, Ok(Unit))

WasmBinary_add_global(self, name, ty, init) ==
    LET global == WasmBinary_global_value(init)
        index == Len(self.globals)
    IN  IF ~global.ok
        THEN Outcome(self, global)
        ELSE IF name \in DOMAIN self.exports
        THEN Outcome(self, Err(<<"wasm already contains", name>>))
        ELSE Outcome([self EXCEPT
                        !.exports = MapInsert(@, name, <<index, "Global">>),
                        !.globals = Append(@, global.val)],
                     Ok(<<"GlobalIndex", index>>))

WasmBinary_get_signature(self, sig) ==
    LET ty == Get(self.types, sig)
    IN  IF ty = None THEN Err(<<"missing signature", sig>>) ELSE Ok(ty[1])

\* get_function with the slip of indexing the local functions by the function index itself
WasmBinary_get_function_no_offset(self, func) ==
    LET index == func
        found == IF index < Len(self.imports)
                 THEN Get([i \in 1..Len(self.imports) |-> self.imports[i].offset], index)
                 ELSE Get(self.functions, index)
        name == MapGet(self.names.functions, func)
    IN  IF found # None THEN WasmBinary_get_signature(self, found[1])
        ELSE IF name # None THEN Err(<<"missing func", name[1], func>>)
        ELSE Err(<<"missing func @ index", func>>)

WasmBinary_get_function(self, func) ==
    LET index == func
        found == IF index < Len(self.imports)
                 THEN Get([i \in 1..Len(self.imports) |-> self.imports[i].offset], index)
                 ELSE Get(self.functions, index - Len(self.imports))
        name == MapGet(self.names.functions, func)
    IN  IF found # None THEN WasmBinary_get_signature(self, found[1])
        ELSE IF name # None THEN Err(<<"missing func", name[1], func>>)
        ELSE Err(<<"missing func @ index", func>>)

WasmBinary_move_start_function(self, name) ==
    LET prior == MapGet(self.exports, name)
        start == self.start
    IN  IF prior # None
        THEN Outcome(self, Err(<<"function already exists", name, prior[1]>>))
        ELSE IF start # None
        THEN Outcome([self EXCEPT
                        !.start = None,
                        !.exports = MapInsert(@, name, <<start[1], "Func">>),
                        !.names.functions = MapInsert(@, start[1], name)],
                     Ok(Unit))
        ELSE Outcome(self, Ok(Unit))

\* limit_heap with the slip of taking the larger of maximum and limit as the bound
WasmBinary_limit_heap_larger_bound(self, limit) ==
    IF Len(self.memories) > 1
    THEN Outcome(self, Err(<<"multi-memory extension not supported">>))
    ELSE IF Len(self.memories) = 0
    THEN Outcome(self, Ok(Unit))
    ELSE LET memory == self.memories[1]
             known == UnwrapOr(memory.maximum, limit)
             bound == IF known >= limit THEN known ELSE limit
             after == [self EXCEPT !.memories[1].maximum = Some(bound)]
         IN  IF memory.initial > bound
             THEN Outcome(after, Err(<<"module memory minimum exceeds limit", memory.initial, bound>>))
             ELSE Outcome(after, Ok(Unit))

WasmBinary_limit_heap(self, limit) ==
    IF Len(self.memories) > 1
    THEN Outcome(self, Err(<<"multi-memory extension not supported">>))
    ELSE IF Len(self.memories) = 0
    THEN Outcome(self, Ok(Unit))
    ELSE LET memory == self.memories[1]
             bound == Min(UnwrapOr(memory.maximum, limit), limit)
             after == [self EXCEPT !.memories[1].maximum = Some(bound)]
         IN  IF memory.initial > bound
             THEN Outcome(after, Err(<<"module memory minimum exceeds limit", memory.initial, bound>>))
             ELSE Outcome(after, Ok(Unit))

----------------------------------------------------------------------------
(* The capability calls, made with the same arguments on both adapters *)

\* the instance of an instrumented module: two globals added by add_global (always
\* Mutability::Var), one immutable global of the guest, and the relocated start function
InstanceExports ==
    [n \in {"cost_left", "depth_left", "page_limit", "user_start"} |->
        CASE n = "cost_left" -> <<"Global", 0>>
          [] n = "depth_left" -> <<"Global", 1>>
          [] n = "page_limit" -> <<"Global", 2>>
          [] n = "user_start" -> <<"Function", 1>>]

\* the globals of that instance in its store, at instantiation
InstanceGlobals ==
    << [ty |-> "I64", mutability |-> "Var", val |-> <<"I64", 0>>],
       [ty |-> "I32", mutability |-> "Var", val |-> <<"I32", 0>>],
       [ty |-> "I32", mutability |-> "Const", val |-> <<"I32", 1>>] >>

\* nothing has been called yet
Fresh ==
    /\ preA = modA
    /\ preB = modB
    /\ call = [op |-> "none"]
    /\ retA = Ok(Unit)
    /\ retB = Ok(Unit)
    /\ hook = [fn |-> "none"]
    /\ hookRet = [kind |-> "Ok"]
    /\ worker = None
    /\ sink = <<>>
    /\ fed = <<>>
    /\ instance = [exports |-> InstanceExports]
    /\ store = [globals |-> InstanceGlobals]
    /\ access = [fn |-> "none"]
    /\ accessRet = [kind |-> "Ok", val |-> Unit]

Init ==
    /\ \E mems \in MemoryLists, start \in StartSlots, exps \in BuiltExports :
          /\ modA = ModuleInfoOf(mems, start, exps)
          /\ modB = WasmBinaryOf(mems, start, exps)
    /\ Fresh

Bridge == <<hook, hookRet, worker, sink>>

Capability == <<modA, modB, preA, preB, call, retA, retB>>

Instantiated == <<instance, store, access, accessRet>>

\* a call that may change the module: a and b are the two adapters' outcomes
Mutate(c, a, b) ==
    /\ preA' = modA
    /\ preB' = modB
    /\ call' = c
    /\ modA' = a.mod
    /\ modB' = b.mod
    /\ retA' = a.ret
    /\ retB' = b.ret
    /\ UNCHANGED <<Bridge, fed, Instantiated>>

\* a call on &self
Query(c, a, b) ==
    /\ preA' = modA
    /\ preB' = modB
    /\ call' = c
    /\ retA' = a
    /\ retB' = b
    /\ UNCHANGED <<modA, modB, Bridge, fed, Instantiated>>

AddGlobal ==
    \E name \in Names, g \in GlobalArgs :
        Mutate([op |-> "add_global", name |-> name, ty |-> g.ty, init |-> g.init],
               ModuleInfo_add_global(modA, name, g.ty, g.init),
               WasmBinary_add_global(modB, name, g.ty, g.init))

GetSignature ==
    \E sig \in 0..Len(modA.signatures) :
        Query([op |-> "get_signature", sig |-> sig],
              ModuleInfo_get_signature(modA, sig),
              WasmBinary_get_signature(modB, sig))

GetFunction ==
    \E func \in 0..Len(modA.functions) :
        Query([op |-> "get_function", func |-> func],
              ModuleInfo_get_function(modA, func),
              WasmBinary_get_function(modB, func))

MoveStartFunction ==
    \E name \in Names :
        Mutate([op |-> "move_start_function", name |-> name],
               ModuleInfo_move_start_function(modA, name),
               WasmBinary_move_start_function(modB, name))

LimitHeap ==
    \E limit \in PageCounts :
        Mutate([op |-> "limit_heap", limit |-> limit],
               ModuleInfo_limit_heap(modA, limit),
               WasmBinary_limit_heap(modB, limit))

Next ==
    \/ AddGlobal
    \/ GetSignature
    \/ GetFunction
    \/ MoveStartFunction
    \/ LimitHeap

Spec == Init /\ [][Next]_vars

----------------------------------------------------------------------------
(* Middleware passes wrapped by the bridge *)

\* operators streamed through a function middleware
Operators == {"Call", "End"}

\* a pass: its name() and the capability call its update_module makes
Middlewares ==
    { [name |-> "meter", update |-> [op |-> "add_global", name |-> "cost_left",
                                     ty |-> "I64", init |-> <<"I64Const", 0>>]],
      [name |-> "start mover", update |-> [op |-> "move_start_function", name |-> "user_start"]] }
        \cup { [name |-> "heap bound", update |-> [op |-> "limit_heap", limit |-> l]] :
                 l \in PageCounts }

\* Middleware::update_module on a ModuleInfo: the pass's capability call, its value dropped
update_module(mw, module) ==
    LET c == mw.update
        out == CASE c.op = "add_global" -> ModuleInfo_add_global(module, c.name, c.ty, c.init)
                 [] c.op = "move_start_function" -> ModuleInfo_move_start_function(module, c.name)
                 [] c.op = "limit_heap" -> ModuleInfo_limit_heap(module, c.limit)
    IN  Outcome(out.mod, IF out.ret.ok THEN Ok(Unit) ELSE out.ret)

\* feed of DefaultFuncMiddleware with the slip of putting the operator first in the sink
DefaultFuncMiddleware_feed_in_front(op, out) == [out |-> <<op>> \o out, ret |-> Ok(Unit)]

\* FuncMiddleware::feed of DefaultFuncMiddleware
DefaultFuncMiddleware_feed(op, out) == [out |-> out \o <<op>>, ret |-> Ok(Unit)]

\* FuncMiddleware::feed of a pass's worker: emits (a prefix and) the operator, or fails
FuncMiddleware_feed(fm, op, out, fails) ==
    IF fm.name = "default middleware" THEN DefaultFuncMiddleware_feed(op, out)
    ELSE IF fails THEN [out |-> out, ret |-> Err(<<"feed failed", op>>)]
    ELSE IF fm.name = "meter" /\ op = "End"
    THEN [out |-> out \o <<"GlobalSet", op>>, ret |-> Ok(Unit)]
    ELSE [out |-> out \o <<op>>, ret |-> Ok(Unit)]

----------------------------------------------------------------------------
(* The bridge: wasmer's hooks over a wrapped pass *)

\* MiddlewareError::new(name, message)
MiddlewareError(name, message) == [kind |-> "Err", name |-> name, message |-> message]

\* Result::map_err(error) of the wrappers, error tagging with the pass's name
MapErr(r, name) == IF r.ok THEN [kind |-> "Ok"] ELSE MiddlewareError(name, r.err)

\* Result::unwrap: the value, or a panic
Unwrap(r) == IF r.ok THEN [kind |-> "Ok"] ELSE [kind |-> "Panic", message |-> r.err]

\* transform_module_info with the slip of running the pass's update_module twice
MiddlewareWrapper_transform_module_info_twice(mw, module) ==
    LET first == update_module(mw, module)
        inner == IF first.ret.ok THEN update_module(mw, first.mod) ELSE first
    IN  [mod |-> inner.mod, inner |-> inner.ret, ret |-> MapErr(inner.ret, mw.name)]

\* feed with the slip of forwarding the operator to the collector besides feeding it
FuncMiddlewareWrapper_feed_and_forward(fm, op, out, fails) ==
    LET inner == FuncMiddleware_feed(fm, op, out, fails)
    IN  [out |-> inner.out \o <<op>>, inner |-> inner.ret, ret |-> MapErr(inner.ret, fm.name)]

MiddlewareWrapper_transform_module_info(mw, module) ==
    LET inner == update_module(mw, module)
    IN  [mod |-> inner.mod, inner |-> inner.ret, ret |-> MapErr(inner.ret, mw.name)]

MiddlewareWrapper_generate_function_middleware(mw, instrumented) ==
    [inner |-> instrumented, ret |-> Unwrap(instrumented),
     worker |-> IF instrumented.ok THEN Some(instrumented.val) ELSE None]

FuncMiddlewareWrapper_feed(fm, op, out, fails) ==
    LET inner == FuncMiddleware_feed(fm, op, out, fails)
    IN  [out |-> inner.out, inner |-> inner.ret, ret |-> MapErr(inner.ret, fm.name)]

Running == hookRet.kind # "Panic"

TransformModuleInfo ==
    \E mw \in Middlewares :
        LET r == MiddlewareWrapper_transform_module_info(mw, modA)
        IN  /\ Running
            /\ hook' = [fn |-> "transform_module_info", name |-> mw.name, inner |-> r.inner,
                        module |-> modA, update |-> mw.update]
            /\ hookRet' = r.ret
            /\ modA' = r.mod
            /\ UNCHANGED <<modB, preA, preB, call, retA, retB, worker, sink, fed, Instantiated>>

\* the wrapped instrument either yields a worker (a pass may hand out the default
\* middleware) or fails
GenerateFunctionMiddleware ==
    \E mw \in Middlewares, local_function_index \in 0..(Len(LocalSigs) - 1) :
    \E instrumented \in { Ok([name |-> mw.name]), Ok([name |-> "default middleware"]),
                          Err(<<"instrument failed">>) } :
        LET r == MiddlewareWrapper_generate_function_middleware(mw, instrumented)
        IN  /\ Running
            /\ hook' = [fn |-> "generate_function_middleware", name |-> mw.name,
                        inner |-> r.inner, index |-> local_function_index]
            /\ hookRet' = r.ret
            /\ worker' = r.worker
            /\ sink' = IF r.worker = None THEN sink ELSE <<>>
            /\ UNCHANGED <<Capability, fed, Instantiated>>

Feed ==
    \E op \in Operators, fails \in BOOLEAN :
        /\ Running
        /\ worker # None
        /\ LET r == FuncMiddlewareWrapper_feed(worker[1], op, sink, fails)
           IN  /\ Len(r.out) <= MaxSink
               /\ hook' = [fn |-> "feed", name |-> worker[1].name, inner |-> r.inner,
                           op |-> op, out |-> sink, fails |-> fails]
               /\ hookRet' = r.ret
               /\ sink' = r.out
        /\ UNCHANGED <<Capability, worker, fed, Instantiated>>

BridgeNext ==
    \/ TransformModuleInfo
    \/ GenerateFunctionMiddleware
    \/ Feed

\* the modules handed to the engine's hooks: those with at most one memory
\* (limit_heap on more memories is covered by the capability calls above)
BridgeInit ==
    /\ Init
    /\ Len(modA.memories) <= 1

BridgeSpec == BridgeInit /\ [][BridgeNext]_vars

----------------------------------------------------------------------------
(* impl GlobalMod for Instance *)

\* names the host asks for
AccessNames == (DOMAIN InstanceExports) \cup {"missing"}

\* the host types T of get_global / set_global, and the values the host writes
HostTypes == {"u32", "u64"}

HostValues == { <<t, v>> : t \in HostTypes, v \in 0..MaxValue }

\* Exports::get_global: the export must exist and be a global
Exports_get_global(exports, name) ==
    IF name \notin DOMAIN exports THEN Err(<<"Missing", name>>)
    ELSE IF exports[name][1] # "Global" THEN Err(<<"IncompatibleType", name>>)
    ELSE Ok(exports[name][2])

\* T::try_from(WasmerValue): u32 from I32, u64 from I64
TryFromValue(t, value) ==
    IF (t = "u32" /\ value[1] = "I32") \/ (t = "u64" /\ value[1] = "I64")
    THEN Ok(<<t, value[2]>>)
    ELSE Err(<<"wrong type", value>>)

\* value.into(): the WasmerValue of a host value
IntoValue(value) == IF value[1] = "u32" THEN <<"I32", value[2]>> ELSE <<"I64", value[2]>>

\* Global::set: the global must be mutable and of the value's type
Global_set(st, global, value) ==
    LET g == st.globals[global + 1]
    IN  IF g.mutability # "Var" THEN [store |-> st, ret |-> Err(<<"immutable global">>)]
        ELSE IF g.ty # value[1] THEN [store |-> st, ret |-> Err(<<"global type mismatch">>)]
        ELSE [store |-> [st EXCEPT !.globals[global + 1].val = value], ret |-> Ok(Unit)]

\* Result::expect / unwrap on the accessor's path
Expect(r) == IF r.ok THEN [kind |-> "Ok", val |-> r.val] ELSE [kind |-> "Panic", message |-> r.err]

Instance_get_global(self, st, name, t) ==
    LET global == Exports_get_global(self.exports, name)
    IN  IF ~global.ok THEN [store |-> st, ret |-> Expect(global)]
        ELSE [store |-> st, ret |-> Expect(TryFromValue(t, st.globals[global.val + 1].val))]

\* set_global with the slip of skipping a name that is not an exported global
Instance_set_global_if_present(self, st, name, value) ==
    LET global == Exports_get_global(self.exports, name)
    IN  IF ~global.ok THEN [store |-> st, ret |-> [kind |-> "Ok", val |-> Unit]]
        ELSE LET set == Global_set(st, global.val, IntoValue(value))
             IN  [store |-> set.store, ret |-> Expect(set.ret)]

Instance_set_global(self, st, name, value) ==
    LET global == Exports_get_global(self.exports, name)
    IN  IF ~global.ok THEN [store |-> st, ret |-> Expect(global)]
        ELSE LET set == Global_set(st, global.val, IntoValue(value))
             IN  [store |-> set.store, ret |-> Expect(set.ret)]

\* one instance is accessed; the module it came from plays no part
InstanceInit ==
    /\ Init
    /\ modA = ModuleInfoOf(<<>>, None, {})

GetGlobal ==
    \E name \in AccessNames, t \in HostTypes :
        LET r == Instance_get_global(instance, store, name, t)
        IN  /\ access' = [fn |-> "get_global", name |-> name, t |-> t, store |-> store]
            /\ accessRet' = r.ret
            /\ store' = r.store
            /\ UNCHANGED <<Capability, Bridge, fed, instance>>

SetGlobal ==
    \E name \in AccessNames, value \in HostValues :
        LET r == Instance_set_global(instance, store, name, value)
        IN  /\ access' = [fn |-> "set_global", name |-> name, value |-> value, store |-> store]
            /\ accessRet' = r.ret
            /\ store' = r.store
            /\ UNCHANGED <<Capability, Bridge, fed, instance>>

InstanceNext ==
    \/ GetGlobal
    \/ SetGlobal

InstanceSpec == InstanceInit /\ [][InstanceNext]_vars

----------------------------------------------------------------------------
(* Function resolution over function tables of every shape, dangling signature *)
(* indices included                                                          *)

\* lists of at most n signature indices, each in range or one past the signatures
SigLists(n) == UNION { [1..k -> 0..Len(Signatures)] : k \in 0..n }

ResolveInit ==
    /\ \E imports \in SigLists(MaxImports), locals \in SigLists(MaxLocals) :
          /\ modA = [ModuleInfoOf(<<>>, None, {}) EXCEPT !.functions = imports \o locals]
          /\ modB = [WasmBinaryOf(<<>>, None, {}) EXCEPT
                        !.imports = [i \in 1..Len(imports) |-> [offset |-> imports[i]]],
                        !.functions = locals]
    /\ Fresh

ResolveNext ==
    \/ GetSignature
    \/ GetFunction

ResolveSpec == ResolveInit /\ [][ResolveNext]_vars

----------------------------------------------------------------------------
(* An operator sequence fed, one operator at a time, to a DefaultFuncMiddleware *)

\* one module is enough here: no memory, no start function, no export
DefaultInit ==
    /\ Init
    /\ modA = ModuleInfoOf(<<>>, None, {})

DefaultFeed ==
    \E op \in Operators :
        LET r == DefaultFuncMiddleware_feed(op, sink)
        IN  /\ Len(fed) < MaxFeed
            /\ hook' = [fn |-> "DefaultFuncMiddleware::feed", name |-> "default middleware",
                        inner |-> r.ret, op |-> op, out |-> sink]
            /\ hookRet' = IF r.ret.ok THEN [kind |-> "Ok"] ELSE [kind |-> "Err"]
            /\ sink' = r.out
            /\ fed' = Append(fed, op)
            /\ UNCHANGED <<Capability, worker, Instantiated>>

DefaultNext == DefaultFeed

DefaultSpec == DefaultInit /\ [][DefaultNext]_vars

----------------------------------------------------------------------------
(* Vocabulary of the properties *)

\* the last call was op
Called(op) == call.op = op

\* the single memory's new maximum: min(M or L, L)
NewMax(maximum, limit) == Min(UnwrapOr(maximum, limit), limit)

\* an export of adapter A and one of adapter B name the same thing
SameExport(a, b) == b = <<a[2], ExportKindOf(a[1])>>

\* the two representations agree in global count, export table, memory bounds and start slot
Equivalent(a, b) ==
    /\ Len(a.globals) = Len(b.globals)
    /\ DOMAIN a.exports = DOMAIN b.exports
    /\ \A n \in DOMAIN a.exports : SameExport(a.exports[n], b.exports[n])
    /\ Len(a.memories) = Len(b.memories)
    /\ \A i \in 1..Len(a.memories) :
          /\ a.memories[i].minimum = b.memories[i].initial
          /\ a.memories[i].maximum = b.memories[i].maximum
    /\ a.start_function = b.start

----------------------------------------------------------------------------
(* C1: when limit_heap(L) fails because the single memory's minimum exceeds  *)
(* min(M or L, L), the memory is left unmodified: its maximum after the      *)
(* failed call is its maximum before the call, in both adapters.             *)
C1_FailedLimitLeavesMemory ==
    (Called("limit_heap") /\ Len(preA.memories) = 1 /\ ~retA.ok /\ ~retB.ok)
        => /\ modA.memories[1].maximum = preA.memories[1].maximum
           /\ modB.memories[1].maximum = preB.memories[1].maximum

(* C2: with at most one memory, limit_heap(L) succeeds exactly when there is *)
(* no memory or minimum <= min(M or L, L); on success the maximum is that    *)
(* value and the minimum is unchanged; a module with no memory is unchanged. *)
C2_LimitHeapContract ==
    (Called("limit_heap") /\ Len(preA.memories) <= 1)
        => IF Len(preA.memories) = 0
           THEN retA.ok /\ retB.ok /\ modA = preA /\ modB = preB
           ELSE LET a == preA.memories[1]
                    b == preB.memories[1]
                IN  /\ retA.ok <=> (a.minimum <= NewMax(a.maximum, call.limit))
                    /\ retB.ok <=> (b.initial <= NewMax(b.maximum, call.limit))
                    /\ modA.memories[1].minimum = a.minimum
                    /\ modB.memories[1].initial = b.initial
                    /\ retA.ok => modA.memories[1].maximum = Some(NewMax(a.maximum, call.limit))
                    /\ retB.ok => modB.memories[1].maximum = Some(NewMax(b.maximum, call.limit))

\* a limit_heap that set an absent maximum to the limit
C2_Witness ==
    /\ Called("limit_heap")
    /\ Len(preA.memories) = 1
    /\ preA.memories[1].maximum = None
    /\ preA.memories[1].minimum = 1
    /\ retA.ok /\ retB.ok
    /\ modA.memories[1].maximum = Some(call.limit)
    /\ modB.memories[1].maximum = Some(call.limit)

(* C3: adapter parity: the same calls on equivalent modules return the same  *)
(* outcome and value on ModuleInfo and WasmBinary and leave the two modules  *)
(* equivalent, for add_global with every initializer kind as well.           *)
C3_AdapterParity ==
    /\ retA.ok = retB.ok
    /\ retA.ok => retA.val = retB.val
    /\ Equivalent(modA, modB)

(* C4 as claimed: on a module with no start function, move_start_function    *)
(* succeeds and leaves export table, start slot and function names unchanged.*)
C4_NoStartAlwaysSucceeds ==
    (Called("move_start_function") /\ preA.start_function = None /\ preB.start = None)
        => /\ retA.ok /\ retB.ok
           /\ modA.exports = preA.exports /\ modB.exports = preB.exports

(* C4 as amended: on a module with no start function, move_start_function    *)
(* with a name that is not yet exported succeeds, with an exported name it   *)
(* fails; either way export table, start slot and function names are left    *)
(* unchanged.                                                                *)
C4_NoStartNoOp ==
    (Called("move_start_function") /\ preA.start_function = None /\ preB.start = None)
        => /\ retA.ok <=> call.name \notin DOMAIN preA.exports
           /\ retB.ok <=> call.name \notin DOMAIN preB.exports
           /\ retA.ok => retA.val = Unit
           /\ retB.ok => retB.val = Unit
           /\ modA.exports = preA.exports /\ modB.exports = preB.exports
           /\ modA.start_function = None /\ modB.start = None
           /\ modA.function_names = preA.function_names
           /\ modB.names.functions = preB.names.functions

\* a successful move_start_function on a module without start function
C4_Witness ==
    /\ Called("move_start_function")
    /\ preA.start_function = None /\ preB.start = None
    /\ call.name \notin DOMAIN preA.exports
    /\ DOMAIN preA.exports # {}
    /\ retA.ok /\ retB.ok

(* C5: with start index K and a name not yet exported, move_start_function   *)
(* succeeds; then the start slot is empty, the name exports function K,      *)
(* every earlier export is kept, and no function, global or memory is added  *)
(* or removed.                                                               *)
C5_StartRelocated ==
    (/\ Called("move_start_function")
     /\ preA.start_function # None /\ preB.start # None
     /\ call.name \notin DOMAIN preA.exports
     /\ call.name \notin DOMAIN preB.exports)
        => /\ retA.ok /\ retB.ok
           /\ modA.start_function = None /\ modB.start = None
           /\ call.name \in DOMAIN modA.exports /\ call.name \in DOMAIN modB.exports
           /\ modA.exports[call.name] = <<"Function", preA.start_function[1]>>
           /\ modB.exports[call.name] = <<preB.start[1], "Func">>
           /\ DOMAIN modA.exports = DOMAIN preA.exports \cup {call.name}
           /\ DOMAIN modB.exports = DOMAIN preB.exports \cup {call.name}
           /\ \A n \in DOMAIN preA.exports : modA.exports[n] = preA.exports[n]
           /\ \A n \in DOMAIN preB.exports : modB.exports[n] = preB.exports[n]
           /\ modA.functions = preA.functions /\ modA.globals = preA.globals
           /\ modA.memories = preA.memories
           /\ modB.functions = preB.functions /\ modB.imports = preB.imports
           /\ modB.globals = preB.globals /\ modB.memories = preB.memories

\* a relocation on a module that already had an export and a global
C5_Witness ==
    /\ Called("move_start_function")
    /\ preA.start_function = Some(1) /\ preB.start = Some(1)
    /\ call.name \notin DOMAIN preA.exports
    /\ Len(preA.globals) = 1
    /\ retA.ok /\ retB.ok
    /\ modA.exports[call.name] = <<"Function", 1>>

(* C6: add_global fails whenever the name is already exported, whatever the  *)
(* export is; after the failed call the globals, the initializers and the    *)
(* export table are what they were.                                          *)
C6_DuplicateRejected ==
    (Called("add_global") /\ call.name \in DOMAIN preA.exports /\ call.name \in DOMAIN preB.exports)
        => /\ ~retA.ok /\ ~retB.ok
           /\ modA.globals = preA.globals
           /\ modA.global_initializers = preA.global_initializers
           /\ modA.exports = preA.exports
           /\ modB.globals = preB.globals
           /\ modB.exports = preB.exports

\* add_global under the name of the relocated start function, another global existing
C6_Witness ==
    /\ Called("add_global")
    /\ call.name \in DOMAIN preA.exports
    /\ preA.exports[call.name][1] = "Function"
    /\ \E n \in DOMAIN preA.exports : preA.exports[n][1] = "Global"
    /\ ~retA.ok /\ ~retB.ok

(* C7: on a module whose export table lacks the name, add_global succeeds,   *)
(* returns the number of globals before the call, adds one global with its   *)
(* initializer and exactly the export name -> Global(index), and leaves the  *)
(* other exports, the start slot and the memories unchanged.                 *)
C7_AddGlobalSucceeds ==
    (Called("add_global") /\ call.name \notin DOMAIN preA.exports /\ call.name \notin DOMAIN preB.exports)
        => /\ retA.ok /\ retB.ok
           /\ retA.val = <<"GlobalIndex", Len(preA.globals)>>
           /\ retB.val = <<"GlobalIndex", Len(preB.globals)>>
           /\ Len(modA.globals) = Len(preA.globals) + 1
           /\ Len(modB.globals) = Len(preB.globals) + 1
           /\ modA.global_initializers = Append(preA.global_initializers, call.init)
           /\ modA.exports = MapInsert(preA.exports, call.name, <<"Global", Len(preA.globals)>>)
           /\ modB.exports = MapInsert(preB.exports, call.name, <<Len(preB.globals), "Global">>)
           /\ modA.start_function = preA.start_function /\ modB.start = preB.start
           /\ modA.memories = preA.memories /\ modB.memories = preB.memories

(* C8: move_start_function fails whenever the name is already exported, with *)
(* or without a start function; after the failed call start slot, export     *)
(* table and function names are unchanged.                                   *)
C8_NameCollision ==
    (/\ Called("move_start_function")
     /\ call.name \in DOMAIN preA.exports
     /\ call.name \in DOMAIN preB.exports)
        => /\ ~retA.ok /\ ~retB.ok
           /\ modA.start_function = preA.start_function /\ modB.start = preB.start
           /\ modA.exports = preA.exports /\ modB.exports = preB.exports
           /\ modA.function_names = preA.function_names
           /\ modB.names.functions = preB.names.functions

\* a collision on a module that still designates its start function
C8_Witness ==
    /\ Called("move_start_function")
    /\ call.name \in DOMAIN preA.exports
    /\ preA.start_function = Some(1) /\ preB.start = Some(1)
    /\ ~retA.ok /\ ~retB.ok
    /\ modA.start_function = Some(1) /\ modB.start = Some(1)

(* C9: on a module with two or more memories limit_heap fails for every      *)
(* limit and changes no memory's minimum or maximum.                         *)
C9_MultiMemoryRejected ==
    (Called("limit_heap") /\ Len(preA.memories) >= 2 /\ Len(preB.memories) >= 2)
        => /\ ~retA.ok /\ ~retB.ok
           /\ modA.memories = preA.memories
           /\ modB.memories = preB.memories

\* limit_heap below the first memory's maximum on a module with two memories
C9_Witness ==
    /\ Called("limit_heap")
    /\ Len(preA.memories) = 2 /\ Len(preB.memories) = 2
    /\ preA.memories[1].maximum # None
    /\ call.limit < preA.memories[1].maximum[1]
    /\ ~retA.ok /\ ~retB.ok

(* C10: every failure of the wrapped update_module, instrument or feed comes *)
(* back from the bridge as an engine error tagged with the pass's name.      *)
C10_FailureTagged ==
    (hook.fn # "none" /\ ~hook.inner.ok)
        => /\ hookRet.kind = "Err"
           /\ hookRet.name = hook.name
           /\ hookRet.message = hook.inner.err

(* C11: every feed of a DefaultFuncMiddleware succeeds and appends exactly   *)
(* the operator fed, so that after the k-th feed the sink, empty at first,   *)
(* is the first k operators fed, in their order.                             *)
C11_DefaultIdentity ==
    /\ sink = fed
    /\ hook.fn = "DefaultFuncMiddleware::feed"
          => /\ hook.inner = Ok(Unit)
             /\ sink = Append(hook.out, hook.op)
             /\ Len(sink) = Len(hook.out) + 1

\* three feeds, not all of the same operator
C11_Witness ==
    /\ hook.fn = "DefaultFuncMiddleware::feed"
    /\ Len(fed) = 3
    /\ fed[1] # fed[2]
    /\ sink = fed
(* C12: the bridge only adapts shapes: an engine feed makes one wrapped feed  *)
(* call and the collector receives exactly what that call appends, in its    *)
(* order; transform_module_info makes one update_module call and leaves the  *)
(* module as update_module left it.                                          *)
C12_PureShapeAdaptation ==
    /\ hook.fn = "feed"
          => LET inner == FuncMiddleware_feed(worker[1], hook.op, hook.out, hook.fails)
             IN  /\ hook.name = worker[1].name
                 /\ sink = inner.out
                 /\ hook.inner = inner.ret
                 /\ (hookRet.kind = "Ok") <=> inner.ret.ok
                 /\ ~inner.ret.ok => sink = hook.out
    /\ hook.fn = "transform_module_info"
          => LET inner == update_module([name |-> hook.name, update |-> hook.update], hook.module)
             IN  /\ modA = inner.mod
                 /\ hook.inner = inner.ret
                 /\ (hookRet.kind = "Ok") <=> inner.ret.ok

\* a feed whose wrapped call emitted two operators, in its order
C12_Witness ==
    /\ hook.fn = "feed"
    /\ hook.name = "meter"
    /\ hook.op = "End"
    /\ hook.out = <<>>
    /\ hookRet.kind = "Ok"
    /\ sink = <<"GlobalSet", "End">>
\* the ArbFunctionType of a signature
ArbTypeOf(ty) == <<"FunctionType", ty.params, ty.results>>

\* what resolving signature index sig gives on the two adapters
ResolvesTo(sig) ==
    IF sig >= Len(preB.types)
    THEN /\ retA = Err(<<"missing signature", sig>>)
         /\ retB = Err(<<"missing signature", sig>>)
    ELSE /\ retA = Ok(ArbTypeOf(preA.signatures[sig + 1]))
         /\ retB = Ok(preB.types[sig + 1])

(* C13: get_function(i) resolves i through the imported functions followed   *)
(* by the local ones and returns get_signature of the signature found; it    *)
(* fails as a missing function exactly when i is outside that index space,   *)
(* as a missing signature when the signature index is out of range; neither  *)
(* get_function nor get_signature changes the module.                        *)
C13_FunctionResolution ==
    /\ Called("get_signature") => ResolvesTo(call.sig) /\ modA = preA /\ modB = preB
    /\ Called("get_function")
          => LET i == call.func
                 n == Len(preB.imports)
             IN  /\ modA = preA /\ modB = preB
                 /\ Len(preA.functions) = n + Len(preB.functions)
                 /\ IF i >= n + Len(preB.functions)
                    THEN /\ retA = Err(<<"missing func @ index", i>>)
                         /\ retB = Err(<<"missing func @ index", i>>)
                    ELSE /\ i < n => ResolvesTo(preB.imports[i + 1].offset)
                         /\ i >= n => ResolvesTo(preB.functions[i - n + 1])
                         /\ ResolvesTo(preA.functions[i + 1])
                         /\ ~retB.ok => retB.err[1] = "missing signature"

\* a local function resolved behind two imports, to a signature the imports do not use
C13_Witness ==
    /\ Called("get_function")
    /\ Len(preB.imports) = 2
    /\ call.func = 3
    /\ Len(preB.functions) = 2
    /\ preB.functions[2] = 0
    /\ preB.imports[1].offset # 0 /\ preB.imports[2].offset # 0
    /\ preB.functions[1] # 0
    /\ retA.ok /\ retB.ok
    /\ retB.val = ArbTypeOf(Signatures[1])
\* name is an exported global of the instance
ExportedGlobal(name) ==
    /\ name \in DOMAIN instance.exports
    /\ instance.exports[name][1] = "Global"

(* C14: get_global and set_global panic when the name is not an exported     *)
(* global, and such a call changes no global; set_global of a value on an    *)
(* exported mutable global of the value's type writes it, so that a          *)
(* following get_global returns the value, and leaves every other global.    *)
C14_GlobalAccessor ==
    /\ (access.fn \in {"get_global", "set_global"} /\ ~ExportedGlobal(access.name))
          => accessRet.kind = "Panic" /\ store = access.store
    /\ (access.fn = "get_global" /\ accessRet.kind = "Ok")
          => /\ ExportedGlobal(access.name)
             /\ store = access.store
             /\ IntoValue(accessRet.val) = store.globals[instance.exports[access.name][2] + 1].val
    /\ (access.fn = "set_global" /\ ExportedGlobal(access.name))
          => LET g == instance.exports[access.name][2] + 1
                 was == access.store.globals[g]
             IN  (was.mutability = "Var" /\ was.ty = IntoValue(access.value)[1])
                    => /\ accessRet.kind = "Ok"
                       /\ store.globals[g].val = IntoValue(access.value)
                       /\ \A k \in 1..Len(store.globals) :
                             k # g => store.globals[k] = access.store.globals[k]
                       /\ Len(store.globals) = Len(access.store.globals)
                       /\ Instance_get_global(instance, store, access.name, access.value[1]).ret
                             = [kind |-> "Ok", val |-> access.value]

\* a value read back that an earlier set_global wrote
C14_Witness ==
    /\ access.fn = "get_global"
    /\ access.name = "cost_left"
    /\ accessRet = [kind |-> "Ok", val |-> <<"u64", 1>>]
    /\ store.globals[2].val = <<"I32", 1>>
(* C15: on a single-memory module no call changes the memory's minimum, and  *)
(* its maximum, once present, never increases; after a successful            *)
(* limit_heap(L) the maximum is present with minimum <= maximum <= L, and    *)
(* the same limit_heap(L) again changes nothing.                             *)
C15_HeapLimitMonotone ==
    (Len(preA.memories) = 1 /\ Len(preB.memories) = 1)
        => LET a == preA.memories[1]
               b == preB.memories[1]
               a2 == modA.memories[1]
               b2 == modB.memories[1]
           IN  /\ Len(modA.memories) = 1 /\ Len(modB.memories) = 1
               /\ a2.minimum = a.minimum /\ b2.initial = b.initial
               /\ a.maximum # None => (a2.maximum # None /\ a2.maximum[1] <= a.maximum[1])
               /\ b.maximum # None => (b2.maximum # None /\ b2.maximum[1] <= b.maximum[1])
               /\ (Called("limit_heap") /\ retA.ok)
                     => /\ a2.maximum # None
                        /\ a2.minimum <= a2.maximum[1] /\ a2.maximum[1] <= call.limit
                        /\ ModuleInfo_limit_heap(modA, call.limit) = Outcome(modA, Ok(Unit))
               /\ (Called("limit_heap") /\ retB.ok)
                     => /\ b2.maximum # None
                        /\ b2.initial <= b2.maximum[1] /\ b2.maximum[1] <= call.limit
                        /\ WasmBinary_limit_heap(modB, call.limit) = Outcome(modB, Ok(Unit))

\* a successful limit_heap that lowered a maximum which was present
C15_Witness ==
    /\ Called("limit_heap")
    /\ Len(preA.memories) = 1
    /\ preA.memories[1].maximum = Some(1) /\ preB.memories[1].maximum = Some(1)
    /\ retA.ok /\ retB.ok
    /\ modA.memories[1].maximum = Some(0) /\ modB.memories[1].maximum = Some(0)
\* the global indices the Global exports of the two adapters refer to
GlobalExportsA(m) == { n \in DOMAIN m.exports : m.exports[n][1] = "Global" }

GlobalExportsB(m) == { n \in DOMAIN m.exports : m.exports[n][2] = "Global" }

(* C16: after any calls, failed ones included, every Global export refers to *)
(* an existing global, successful add_global calls returned distinct         *)
(* indices, no successful call removed or retargeted an export, and in       *)
(* ModuleInfo globals and initializers grow in lockstep: by one on a         *)
(* successful add_global, not at all on a failed one.                        *)
C16_ExportIntegrity ==
    /\ \A n \in GlobalExportsA(modA) : modA.exports[n][2] < Len(modA.globals)
    /\ \A n \in GlobalExportsB(modB) : modB.exports[n][1] < Len(modB.globals)
    /\ \A n, k \in GlobalExportsA(modA) : n # k => modA.exports[n][2] # modA.exports[k][2]
    /\ \A n, k \in GlobalExportsB(modB) : n # k => modB.exports[n][1] # modB.exports[k][1]
    /\ (Called("add_global") /\ retA.ok)
          => /\ retA.val = <<"GlobalIndex", Len(preA.globals)>>
             /\ \A n \in GlobalExportsA(preA) : preA.exports[n][2] # retA.val[2]
             /\ modA.exports[call.name] = <<"Global", retA.val[2]>>
    /\ (Called("add_global") /\ retB.ok)
          => /\ retB.val = <<"GlobalIndex", Len(preB.globals)>>
             /\ \A n \in GlobalExportsB(preB) : preB.exports[n][1] # retB.val[2]
             /\ modB.exports[call.name] = <<retB.val[2], "Global">>
    /\ retA.ok => \A n \in DOMAIN preA.exports :
                     n \in DOMAIN modA.exports /\ modA.exports[n] = preA.exports[n]
    /\ retB.ok => \A n \in DOMAIN preB.exports :
                     n \in DOMAIN modB.exports /\ modB.exports[n] = preB.exports[n]
    /\ Len(modA.globals) = Len(modA.global_initializers)
    /\ Called("add_global")
          => IF retA.ok
             THEN /\ Len(modA.globals) = Len(preA.globals) + 1
                  /\ Len(modA.global_initializers) = Len(preA.global_initializers) + 1
             ELSE /\ modA.globals = preA.globals
                  /\ modA.global_initializers = preA.global_initializers

\* a second successful add_global
C16_Witness ==
    /\ Called("add_global")
    /\ retA.ok /\ retB.ok
    /\ retA.val = <<"GlobalIndex", 1>> /\ retB.val = <<"GlobalIndex", 1>>
    /\ Len(modA.globals) = 2 /\ Len(modB.globals) = 2
    /\ Cardinality(GlobalExportsA(modA)) = 2
\* the start function has been relocated: move_start_function named it
RelocatedA(m) == DOMAIN m.function_names # {}

RelocatedB(m) == DOMAIN m.names.functions # {}

\* what holds of every call once the start slot is involved
C17_AfterCall ==
    /\ (Called("move_start_function") /\ modA.exports # preA.exports)
          => /\ preA.start_function # None /\ modA.start_function = None
             /\ ~RelocatedA(preA)
             /\ DOMAIN modA.exports = DOMAIN preA.exports \cup {call.name}
    /\ (Called("move_start_function") /\ modB.exports # preB.exports)
          => /\ preB.start # None /\ modB.start = None
             /\ ~RelocatedB(preB)
             /\ DOMAIN modB.exports = DOMAIN preB.exports \cup {call.name}
    /\ RelocatedA(modA) => modA.start_function = None /\ Cardinality(DOMAIN modA.function_names) = 1
    /\ RelocatedB(modB) => modB.start = None /\ Cardinality(DOMAIN modB.names.functions) = 1
    /\ (Called("move_start_function") /\ RelocatedA(preA))
          => /\ \A f \in DOMAIN preA.function_names :
                   call.name = preA.function_names[f] => ~retA.ok
             /\ call.name \in DOMAIN preA.exports => ~retA.ok
             /\ call.name \notin DOMAIN preA.exports
                   => retA.ok /\ modA.exports = preA.exports
    /\ (Called("move_start_function") /\ RelocatedB(preB))
          => /\ \A f \in DOMAIN preB.names.functions :
                   call.name = preB.names.functions[f] => ~retB.ok
             /\ call.name \in DOMAIN preB.exports => ~retB.ok
             /\ call.name \notin DOMAIN preB.exports
                   => retB.ok /\ modB.exports = preB.exports

(* C17: none of the five operations sets the start slot, so once empty it    *)
(* stays empty; hence at most one move_start_function call adds an export,   *)
(* and after a relocation a call with the same name fails while a call with  *)
(* a fresh name succeeds without adding an export.                           *)
C17_StartNeverSet ==
    /\ [][/\ modA.start_function = None => modA'.start_function = None
          /\ modB.start = None => modB'.start = None]_vars
    /\ []C17_AfterCall

\* after a relocation, a call with a fresh name that succeeded and added nothing
C17_Witness ==
    /\ Called("move_start_function")
    /\ RelocatedA(preA) /\ RelocatedB(preB)
    /\ call.name \notin DOMAIN preA.exports
    /\ retA.ok /\ retB.ok
    /\ modA.exports = preA.exports /\ modB.exports = preB.exports

====
